---- MODULE Spec2Model ----
(***************************************************************************)
(* AdvancedRoutePlanner.planTrip of olamap-mcp-server: resolve locations,  *)
(* fetch (or estimate) the travel-time matrix, order the stops with the    *)
(* priority-weighted nearest-neighbour heuristic, build the linear         *)
(* schedule, split it into day plans and aggregate the trip plan.          *)
(*                                                                         *)
(* A location object is identified by its position in the resolved list    *)
(* (the code compares object references with indexOf).  A wall-clock       *)
(* string "HH:MM" is the pair <<HH, MM>>.  Distances are kept in metres,   *)
(* rounded totals in tenths of a kilometre, effective travel times as the  *)
(* doubles the code multiplies out, in units of 2^-53.  The optional trip  *)
(* date is always omitted.                                                 *)
(***************************************************************************)
EXTENDS Integers, Sequences, FiniteSets, TLC

(***************************************************************************)
(* Bounds                                                                  *)
(***************************************************************************)
MaxLocs == 3

(***************************************************************************)
(* Small helpers on sequences                                              *)
(***************************************************************************)
Range(s) == {s[i] : i \in DOMAIN s}

\* Array.prototype.indexOf, 1-based; 0 stands for "not found" (-1).
IndexOf(s, x) ==
  IF \E i \in DOMAIN s : s[i] = x
  THEN CHOOSE i \in DOMAIN s : s[i] = x /\ \A j \in 1..(i - 1) : s[j] # x
  ELSE 0

\* A splice that always drops the last element (pop) instead of the k-th.
RemoveAt_Pop(s, k) == [i \in 1..(Len(s) - 1) |-> s[i]]

\* Array.prototype.splice(k, 1) : the array without its k-th element.
RemoveAt(s, k) == [i \in 1..(Len(s) - 1) |-> IF i < k THEN s[i] ELSE s[i + 1]]

RECURSIVE SumSeq(_)
SumSeq(s) == IF s = <<>> THEN 0 ELSE s[1] + SumSeq(Tail(s))

RECURSIVE Flatten(_)
Flatten(ss) == IF ss = <<>> THEN <<>> ELSE ss[1] \o Flatten(Tail(ss))

\* Math.ceil(a / b) for a >= 0, b > 0.
CeilDiv(a, b) == (a + b - 1) \div b

(***************************************************************************)
(* The world of the collaborators and the requests                         *)
(***************************************************************************)
\* An omitted optional string field.  An omitted optional number is 0, which
\* the code treats like a missing one (`x || default`, `x && ...`).
None == "none"

\* Three coordinate strings: "12.931,77.616", "12.935,77.620", "12.940,77.625".
Sites == {"s1", "s2", "s3"}

\* calculateHaversineDistance between the three coordinates, in metres.
Haversine(a, b) ==
  IF a = b THEN 0
  ELSE IF {a, b} = {"s1", "s2"} THEN 621
  ELSE IF {a, b} = {"s1", "s3"} THEN 1397
  ELSE 776

\* What the geocoding and place-details collaborators know.
GeocodeSite(address) == IF address = "addrA" THEN "s1" ELSE "s3"
PlaceSite(placeId) == "s3"

\* Durations in seconds the distance-matrix collaborator reports.
ApiDuration(table, a, b) ==
  IF a = b THEN 0
  ELSE IF table \in {"triangle", "shortRows"} THEN
         (IF {a, b} = {"s1", "s2"} THEN 600
          ELSE IF {a, b} = {"s1", "s3"} THEN 900 ELSE 720)
  ELSE IF table = "longHaul" THEN
         (IF <<a, b>> = <<"s1", "s3">> THEN 3780
          ELSE IF <<a, b>> = <<"s1", "s2">> THEN 3360 ELSE 600)
  ELSE CASE <<a, b>> = <<"s1", "s2">> -> 61
         [] <<a, b>> = <<"s2", "s1">> -> 3600
         [] <<a, b>> = <<"s1", "s3">> -> 1200
         [] <<a, b>> = <<"s3", "s1">> -> 59
         [] <<a, b>> = <<"s2", "s3">> -> 0
         [] OTHER -> 300

\* The VisitLocation objects a request is made of.
Catalogue ==
  { [name |-> "A", address |-> "addrA", coordinates |-> None, place_id |-> None,
     visit_duration_minutes |-> 30, priority |-> "high"],
    [name |-> "B", address |-> None, coordinates |-> "s2", place_id |-> None,
     visit_duration_minutes |-> 30, priority |-> "medium"],
    [name |-> "C", address |-> None, coordinates |-> "s3", place_id |-> None,
     visit_duration_minutes |-> 30, priority |-> "low"],
    [name |-> "D", address |-> None, coordinates |-> "s1", place_id |-> None,
     visit_duration_minutes |-> 600, priority |-> None],
    [name |-> "E", address |-> "addrE", coordinates |-> None, place_id |-> "placeE",
     visit_duration_minutes |-> 45, priority |-> "high"],
    [name |-> "F", address |-> None, coordinates |-> None, place_id |-> "placeF",
     visit_duration_minutes |-> 15, priority |-> "low"],
    [name |-> "G", address |-> "addrG", coordinates |-> "s2", place_id |-> "placeG",
     visit_duration_minutes |-> 20, priority |-> "high"] }

\* Requests: lists of distinct catalogue locations (names are unique).
Requests ==
  UNION { { s \in [1..n -> Catalogue] : \A i, j \in 1..n : i # j => s[i] # s[j] }
          : n \in 0..MaxLocs }

Vehicles ==
  { [type |-> "car", average_speed_kmh |-> 0],
    [type |-> "walking", average_speed_kmh |-> 0],
    [type |-> "bike", average_speed_kmh |-> 60] }

ConstraintSets ==
  { [start_time |-> <<9, 0>>, end_time |-> <<17, 0>>, max_total_distance_km |-> 1,
     break_duration_minutes |-> 30, break_after_hours |-> 4],
    [start_time |-> <<9, 0>>, end_time |-> <<10, 30>>, max_total_distance_km |-> 0,
     break_duration_minutes |-> 0, break_after_hours |-> 0],
    [start_time |-> <<10, 0>>, end_time |-> <<9, 0>>, max_total_distance_km |-> 0,
     break_duration_minutes |-> 0, break_after_hours |-> 0] }

\* Values of break_duration_minutes and break_after_hours (0: field omitted).
BreakSettings ==
  { [break_duration_minutes |-> 0, break_after_hours |-> 0],
    [break_duration_minutes |-> 30, break_after_hours |-> 4],
    [break_duration_minutes |-> 60, break_after_hours |-> 1] }

GeocodeModes == {"ok", "empty", "throws"}
PlaceModes == {"ok", "noGeometry", "throws"}
\* "noRows": the response has no rows field; "shortRows": it has the triangle
\* durations but lacks the row of the last origin; "longHaul": 63 and 56
\* minutes from the first site, whose products with 0.8 and 0.9 differ in
\* double arithmetic only.
MatrixModes == {"triangle", "asymmetric", "longHaul", "throws", "noRows", "shortRows"}

(***************************************************************************)
(* Utility methods                                                         *)
(***************************************************************************)
parseTime(t) == t[1] * 60 + t[2]

\* A clock that wraps at midnight.
formatTime_WrapsAtMidnight(minutes) == <<(minutes \div 60) % 24, minutes % 60>>

\* formatTime(minutes): the hours and minutes written into "HH:MM".
formatTime(minutes) == <<minutes \div 60, minutes % 60>>

getDefaultSpeed(vehicleType) ==
  CASE vehicleType = "car" -> 40
    [] vehicleType = "bike" -> 15
    [] vehicleType = "walking" -> 5
    [] vehicleType = "public_transport" -> 25
    [] OTHER -> 40

getRouteMode(vehicleType) ==
  CASE vehicleType = "car" -> "driving"
    [] vehicleType = "bike" -> "cycling"
    [] vehicleType = "walking" -> "walking"
    [] vehicleType = "public_transport" -> "transit"
    [] OTHER -> "driving"

\* estimateDistance(loc1, loc2) in metres.
estimateDistance(loc1, loc2) ==
  IF loc1.coordinates = None \/ loc2.coordinates = None THEN 0
  ELSE Haversine(loc1.coordinates, loc2.coordinates)

(***************************************************************************)
(* resolveLocations: one location                                          *)
(***************************************************************************)
\* A geocoding branch that falls back to a default coordinate on no result.
geocodeBranch_DefaultOnEmpty(location, gMode) ==
  IF location.coordinates = None /\ location.address # None
  THEN (IF gMode = "ok" THEN GeocodeSite(location.address) ELSE "s1")
  ELSE location.coordinates

\* The geocoding branch: the coordinates after it.
geocodeBranch(location, gMode) ==
  IF location.coordinates = None /\ location.address # None
  THEN (IF gMode = "ok" THEN GeocodeSite(location.address) ELSE None)
  ELSE location.coordinates

\* The place-details branch, given the coordinates so far.
placeBranch(location, coordinates, pMode) ==
  IF coordinates = None /\ location.place_id # None
  THEN (IF pMode = "ok" THEN PlaceSite(location.place_id) ELSE None)
  ELSE coordinates

resolveCoordinates(location, gMode, pMode) ==
  placeBranch(location, geocodeBranch(location, gMode), pMode)

\* A test that asks for geocoding whether or not coordinates were given.
geocodeRequested_NoCoordinateTest(location) == location.address # None

\* if (!coordinates && location.address)
geocodeRequested(location) == location.coordinates = None /\ location.address # None

\* if (!coordinates && location.place_id)
placeRequested(location, coordinates) == coordinates = None /\ location.place_id # None

(***************************************************************************)
(* getDistanceMatrix and its fallback                                      *)
(***************************************************************************)
\* The coordinates handed over last location first.
coordinatesOf_Reversed(locs) ==
  [k \in 1..Len(locs) |-> locs[Len(locs) + 1 - k].coordinates]

\* locations.map(loc => loc.coordinates!)
coordinatesOf(locs) == [k \in 1..Len(locs) |-> locs[k].coordinates]

Unreachable == 999999

\* One entry built from a reported duration in seconds.
durationToMinutes(duration) ==
  IF duration # 0 THEN CeilDiv(duration, 60) ELSE Unreachable

\* An estimator that ignores the vehicle's own average speed.
estimateDistanceMatrix_DefaultSpeedOnly(locs, veh) ==
  [i \in 1..Len(locs) |->
    [j \in 1..Len(locs) |->
      IF i = j THEN 0
      ELSE CeilDiv(Haversine(locs[i].coordinates, locs[j].coordinates) * 60,
                   getDefaultSpeed(veh.type) * 1000)]]

estimateDistanceMatrix(locs, veh) ==
  LET avgSpeed == IF veh.average_speed_kmh # 0 THEN veh.average_speed_kmh
                  ELSE getDefaultSpeed(veh.type)
  IN [i \in 1..Len(locs) |->
       [j \in 1..Len(locs) |->
         IF i = j THEN 0
         ELSE CeilDiv(Haversine(locs[i].coordinates, locs[j].coordinates) * 60,
                      avgSpeed * 1000)]]

\* result.rows.length for a request of n origins.
rowsReturned(n, mMode) ==
  IF mMode = "noRows" \/ n = 0 THEN 0
  ELSE IF mMode = "shortRows" THEN n - 1
  ELSE n

getDistanceMatrix(locs, veh, mMode) ==
  IF mMode = "throws" THEN estimateDistanceMatrix(locs, veh)
  ELSE [i \in 1..rowsReturned(Len(locs), mMode) |->
         [j \in 1..Len(locs) |->
           durationToMinutes(ApiDuration(mMode, locs[i].coordinates,
                                         locs[j].coordinates))]]

(***************************************************************************)
(* optimizeRoute                                                           *)
(***************************************************************************)
\* What splice(0, 1)[0] yields on an empty array.
UndefinedLoc == 0

priorityOrder(p) ==
  CASE p = "high" -> 3 [] p = "medium" -> 2 [] p = "low" -> 1

\* a.priority || 'medium'
sortPriority(loc) == priorityOrder(IF loc.priority = None THEN "medium" ELSE loc.priority)

\* The bonus given the wrong way round: the discount goes to low priority.
priorityBonus_Inverted(loc) ==
  IF loc.priority = "high" THEN 10 ELSE IF loc.priority = "medium" THEN 9 ELSE 8

\* The priority bonus of the selection loop, named by ten times its literal.
priorityBonus(loc) ==
  IF loc.priority = "high" THEN 8 ELSE IF loc.priority = "medium" THEN 9 ELSE 10

\* An insertion that puts x before the elements of equal priority.
RECURSIVE insertSorted_Unstable(_, _, _)
insertSorted_Unstable(x, sorted, locs) ==
  IF sorted = <<>> THEN <<x>>
  ELSE IF sortPriority(locs[x]) - sortPriority(locs[sorted[1]]) >= 0
       THEN <<x>> \o sorted
       ELSE <<sorted[1]>> \o insertSorted_Unstable(x, Tail(sorted), locs)

\* Stable insertion of x into a list sorted by descending priority.
RECURSIVE insertSorted(_, _, _)
insertSorted(x, sorted, locs) ==
  IF sorted = <<>> THEN <<x>>
  ELSE IF sortPriority(locs[x]) - sortPriority(locs[sorted[1]]) > 0
       THEN <<x>> \o sorted
       ELSE <<sorted[1]>> \o insertSorted(x, Tail(sorted), locs)

\* unvisited.sort((a, b) => bPriority - aPriority), a stable sort.
RECURSIVE sortByPriority(_, _)
sortByPriority(s, locs) ==
  IF s = <<>> THEN <<>>
  ELSE insertSorted(s[Len(s)], sortByPriority(SubSeq(s, 1, Len(s) - 1), locs), locs)

\* The list handed to optimizeRoute had it been sorted in place.
locationsAfterSort_InPlace(locs) ==
  [k \in 1..Len(locs) |-> locs[sortByPriority([q \in 1..Len(locs) |-> q], locs)[k]]]

\* The list handed to optimizeRoute after `const unvisited = [...locations]`
\* and the sort of that copy: as it was.
locationsAfterSort(locs) == locs

\* The double nearest to the literal 0.8, 0.9 or 1.0 in units of 2^-53,
\* written in digits of base 1024, least significant first.
bonusDouble(bonus) ==
  CASE bonus = 8 -> << 410, 614, 409, 614, 409, 6 >>
    [] bonus = 9 -> << 205, 819, 204, 819, 204, 7 >>
    [] OTHER -> << 0, 0, 0, 0, 0, 8 >>

RECURSIVE bitLength(_)
bitLength(n) == IF n = 0 THEN 0 ELSE 1 + bitLength(n \div 2)

\* The exact product of an integer below 2^20 and a number in base 1024.
RECURSIVE exactProduct(_, _, _, _)
exactProduct(t, m, k, carry) ==
  IF k > Len(m) THEN << carry % 1024, carry \div 1024 >>
  ELSE LET p == t * m[k] + carry
       IN << p % 1024 >> \o exactProduct(t, m, k + 1, p \div 1024)

\* The same number in three words of 30 bits, most significant first.
inWords(d) ==
  << d[7] + 1024 * d[8],
     d[4] + 1024 * d[5] + 1048576 * d[6],
     d[1] + 1024 * d[2] + 1048576 * d[3] >>

\* Rounding to the 53 significant bits of a double, ties to even.
roundToDouble(w) ==
  LET len == IF w[1] > 0 THEN 60 + bitLength(w[1])
             ELSE IF w[2] > 0 THEN 30 + bitLength(w[2])
             ELSE bitLength(w[3])
      r == len - 53
  IN IF r <= 0 THEN w
     ELSE LET rem == w[3] % (2 ^ r)
              half == 2 ^ (r - 1)
              odd == (w[3] \div (2 ^ r)) % 2 = 1
              up == rem > half \/ (rem = half /\ odd)
              low == w[3] - rem + (IF up THEN 2 ^ r ELSE 0)
              mid == w[2] + low \div (2 ^ 30)
          IN << w[1] + mid \div (2 ^ 30), mid % (2 ^ 30), low % (2 ^ 30) >>

\* travelTime * priorityBonus in double arithmetic, in units of 2^-53.
effectiveTimeOf(travelTime, bonus) ==
  roundToDouble(inWords(exactProduct(travelTime, bonusDouble(bonus), 1, 0)))

\* Above every product of a travel time.
Infinity == << 2 ^ 30, 0, 0 >>

\* if (effectiveTime < shortestTime)
isShorter(effectiveTime, shortestTime) ==
  \/ effectiveTime[1] < shortestTime[1]
  \/ /\ effectiveTime[1] = shortestTime[1]
     /\ \/ effectiveTime[2] < shortestTime[2]
        \/ /\ effectiveTime[2] = shortestTime[2]
           /\ effectiveTime[3] < shortestTime[3]

\* The for-loop of one selection: the index (1-based) it leaves in nearestIndex.
RECURSIVE nearestLoop(_, _, _, _, _, _, _)
nearestLoop(i, nearestIndex, shortestTime, unv, current, matrix, locs) ==
  IF i > Len(unv) THEN nearestIndex
  ELSE LET travelTime == matrix[current][unv[i]]
           effectiveTime == effectiveTimeOf(travelTime, priorityBonus(locs[unv[i]]))
       IN IF isShorter(effectiveTime, shortestTime)
          THEN nearestLoop(i + 1, i, effectiveTime, unv, current, matrix, locs)
          ELSE nearestLoop(i + 1, nearestIndex, shortestTime, unv, current, matrix, locs)

nearestIndexOf(unv, current, matrix, locs) ==
  nearestLoop(1, 1, Infinity, unv, current, matrix, locs)

\* The while loop run to its end: the order it leaves in optimized.
\* distanceMatrix[currentOriginalIndex] is undefined: reading its element
\* throws a TypeError.
rowMissing(current, matrix) == current \notin DOMAIN matrix

\* What optimizeRoute leaves when it is left by that TypeError.
Thrown == << >>

RECURSIVE selectAll(_, _, _, _)
selectAll(opt, unv, matrix, locs) ==
  IF Len(unv) = 0 THEN opt
  ELSE IF rowMissing(IndexOf([k \in 1..Len(locs) |-> k], opt[Len(opt)]), matrix)
  THEN Thrown
  ELSE LET current == IndexOf([k \in 1..Len(locs) |-> k], opt[Len(opt)])
           nearestIndex == nearestIndexOf(unv, current, matrix, locs)
       IN selectAll(Append(opt, unv[nearestIndex]), RemoveAt(unv, nearestIndex),
                    matrix, locs)

\* optimizeRoute(locations, distanceMatrix) as a whole.
optimizeRoute(locs, matrix) ==
  LET sorted == sortByPriority([k \in 1..Len(locs) |-> k], locs)
  IN IF sorted = << >> THEN << UndefinedLoc >>
     ELSE selectAll(<< sorted[1] >>, RemoveAt(sorted, 1), matrix, locs)

(***************************************************************************)
(* calculateSchedule                                                       *)
(***************************************************************************)
\* travelTime of the stop at position i of the ordered list.
scheduleTravelTime(order, i, matrix) ==
  IF i > 1 THEN matrix[IndexOf(order, order[i - 1])][IndexOf(order, order[i])]
  ELSE 0

\* currentTime when the stop at position i is reached.
RECURSIVE arrivalMinutes(_, _, _, _, _)
arrivalMinutes(order, i, matrix, locs, startTime) ==
  IF i = 1 THEN parseTime(startTime)
  ELSE arrivalMinutes(order, i - 1, matrix, locs, startTime)
       + locs[order[i - 1]].visit_duration_minutes
       + scheduleTravelTime(order, i, matrix)

calculateSchedule(order, matrix, locs, cons) ==
  [i \in 1..Len(order) |->
    LET t == arrivalMinutes(order, i, matrix, locs, cons.start_time)
    IN [location |-> order[i],
        arrival |-> formatTime(t),
        departure |-> formatTime(t + locs[order[i]].visit_duration_minutes),
        travel_time |-> scheduleTravelTime(order, i, matrix)]]

(***************************************************************************)
(* createDayPlan and generateTripPlan                                      *)
(***************************************************************************)
\* A window shortened by the break.
maxDayMinutesOf_LessBreak(cons) ==
  parseTime(cons.end_time) - parseTime(cons.start_time) - cons.break_duration_minutes

\* parseTime(constraints.end_time) - parseTime(constraints.start_time)
maxDayMinutesOf(cons) == parseTime(cons.end_time) - parseTime(cons.start_time)

\* A feasibility flag that is never cleared.
isFeasible_Always(time, maxDayMinutes) == TRUE

\* A day that just fits the window counted as too long.
isFeasible_Strict(time, maxDayMinutes) == time < maxDayMinutes

\* feasible = time <= maxDayMinutes
isFeasible(time, maxDayMinutes) == time <= maxDayMinutes

\* The visit time summed over the whole trip instead of the day.
totalVisitTimeOf_WholeTrip(dayLocs, locs) ==
  SumSeq([k \in 1..Len(locs) |-> locs[k].visit_duration_minutes])

\* locations.reduce((sum, loc) => sum + loc.visit_duration_minutes, 0)
totalVisitTimeOf(dayLocs, locs) ==
  SumSeq([k \in 1..Len(dayLocs) |-> locs[dayLocs[k]].visit_duration_minutes])

\* The overflow reported as the day's time, the window not subtracted.
overflowMinutes_NotSubtracted(time, maxDayMinutes) == time

\* `Day exceeds time limit by ${time - maxDayMinutes} minutes`
overflowMinutes(time, maxDayMinutes) == time - maxDayMinutes

\* 2^s modulo m.
RECURSIVE powerOfTwoMod(_, _)
powerOfTwoMod(s, m) == IF s = 0 THEN 1 % m ELSE (2 * powerOfTwoMod(s - 1, m)) % m

\* The double that holds a distance of `distance` metres in kilometres lies
\* below distance / 1000: the 53-bit quotient was rounded down.
kmRoundedDown(distance) ==
  LET exponent == IF distance >= 1000 THEN bitLength(distance \div 1000) - 1
                  ELSE 0 - (CHOOSE j \in 1..10 : /\ distance * (2 ^ j) >= 1000
                                                /\ distance * (2 ^ (j - 1)) < 1000)
      rem == ((distance % 1000) * powerOfTwoMod(52 - exponent, 1000)) % 1000
  IN rem # 0 /\ 2 * rem < 1000

\* (distance - max_total_distance_km).toFixed(1), in tenths of a kilometre:
\* the difference of the two doubles is exact and toFixed rounds its exact
\* value, so a difference that is a whole number of tenths and a half on paper
\* goes down when the double lies below it.
toFixedOver(distance, maxKm) ==
  LET over == distance - maxKm * 1000
  IN IF over % 100 = 50 /\ kmRoundedDown(distance) THEN over \div 100
     ELSE (over + 50) \div 100

createDayPlan(day, dayLocs, segments, distance, time, cons, locs) ==
  LET maxDayMinutes == maxDayMinutesOf(cons)
      feasible == isFeasible(time, maxDayMinutes)
      timeIssues == IF ~feasible
                    THEN << [kind |-> "exceedsTimeLimit",
                             by |-> overflowMinutes(time, maxDayMinutes)] >>
                    ELSE << >>
      distanceIssues ==
        IF cons.max_total_distance_km # 0 /\ distance > cons.max_total_distance_km * 1000
        THEN << [kind |-> "exceedsDistanceLimit",
                 by |-> toFixedOver(distance, cons.max_total_distance_km)] >>
        ELSE << >>
      totalVisitTime == totalVisitTimeOf(dayLocs, locs)
  IN [day |-> day,
      locations |-> dayLocs,
      route_segments |-> segments,
      total_distance_km |-> (distance + 50) \div 100,
      total_travel_time_minutes |-> time - totalVisitTime,
      total_visit_time_minutes |-> totalVisitTime,
      start_time |-> cons.start_time,
      end_time |-> formatTime(parseTime(cons.start_time) + time),
      feasible |-> feasible,
      issues |-> timeIssues \o distanceIssues,
      suggestions |-> IF ~feasible THEN << "reduceOrSplit" >> ELSE << >>]

\* The previous location taken to be the first one of the day.
prevLocationOf_FirstOfDay(dayLocs) == dayLocs[1]

\* currentDayLocations[currentDayLocations.length - 2]
prevLocationOf(dayLocs) == dayLocs[Len(dayLocs) - 1]

\* The split test without the guard on an empty day.
exceedsDay_NoEmptyGuard(dayTime, totalTimeNeeded, maxDayMinutes, dayLocs) ==
  dayTime + totalTimeNeeded > maxDayMinutes

\* The split test made on the day's time alone, the new stop not counted.
exceedsDay_NewStopNotCounted(dayTime, totalTimeNeeded, maxDayMinutes, dayLocs) ==
  dayTime > maxDayMinutes /\ Len(dayLocs) > 0

\* The split test of createDayPlans.
exceedsDay(dayTime, totalTimeNeeded, maxDayMinutes, dayLocs) ==
  dayTime + totalTimeNeeded > maxDayMinutes /\ Len(dayLocs) > 0

\* allLocations.filter(loc => !visitedLocations.some(v => v.name === loc.name))
unvisitedOf(plans, locs) ==
  LET visited == Flatten([d \in 1..Len(plans) |-> plans[d].locations])
  IN SelectSeq([k \in 1..Len(locs) |-> k],
               LAMBDA k : ~\E v \in Range(visited) : locs[v].name = locs[k].name)

\* The single-day flag without the test on the number of days.
feasibleInSingleDayOf_FirstDayOnly(plans) == plans[1].feasible

\* dayPlans.length === 1 && dayPlans[0].feasible
feasibleInSingleDayOf(plans) == Len(plans) = 1 /\ plans[1].feasible

generateTripPlan(plans, locs, cons) ==
  LET unvisitedLocations == unvisitedOf(plans, locs)
      totalDistance == SumSeq([d \in 1..Len(plans) |-> plans[d].total_distance_km])
      totalMinutes == SumSeq([d \in 1..Len(plans) |->
                        plans[d].total_travel_time_minutes + plans[d].total_visit_time_minutes])
      totalTravel == SumSeq([d \in 1..Len(plans) |-> plans[d].total_travel_time_minutes])
      feasibleInSingleDay == feasibleInSingleDayOf(plans)
  IN [feasible_in_single_day |-> feasibleInSingleDay,
      recommended_days |-> Len(plans),
      day_plans |-> plans,
      total_distance_km |-> totalDistance,
      total_time_hours |-> (totalMinutes + 3) \div 6,
      unvisited_locations |-> unvisitedLocations,
      optimization_notes |->
        (IF ~feasibleInSingleDay
         THEN << [kind |-> "requiresDays", n |-> Len(plans)] >> ELSE << >>)
        \o (IF Len(unvisitedLocations) > 0
            THEN << [kind |-> "notScheduled", n |-> Len(unvisitedLocations)] >> ELSE << >>),
      alternative_suggestions |->
        (IF Len(unvisitedLocations) > 0 THEN << "extendOrReduce" >> ELSE << >>)
        \o (IF totalTravel > 180 * Len(plans) THEN << "groupByProximity" >> ELSE << >>)]

(***************************************************************************)
(* State                                                                   *)
(***************************************************************************)
VARIABLES
  locations,            \* the caller's input list
  vehicle,
  constraints,
  geocodeMode,          \* how the geocoding collaborator answers
  placeMode,            \* how the place-details collaborator answers
  matrixMode,           \* how the distance-matrix collaborator answers
  pc,                   \* where planTrip is
  resolved,             \* resolveLocations: the copies with coordinates
  calls,                \* the collaborator calls made so far, in order
  distanceMatrix,
  unvisited,            \* optimizeRoute
  optimized,
  schedule,
  i,                    \* createDayPlans: index of the next schedule item
  currentDay,
  currentDayLocations,
  currentDaySegments,
  currentDayTime,
  currentDayDistance,
  dayPlans,
  result,               \* the TripPlan returned, or NoPlan
  error,                \* the message of the error thrown, or << >>
  suspended             \* the locals of the other planTrip call on this planner

vars == << locations, vehicle, constraints, geocodeMode, placeMode, matrixMode,
           pc, resolved, calls, distanceMatrix, unvisited, optimized, schedule,
           i, currentDay, currentDayLocations, currentDaySegments, currentDayTime,
           currentDayDistance, dayPlans, result, error, suspended >>

inputVars == << locations, vehicle, constraints, geocodeMode, placeMode, matrixMode >>
optimizeVars == << unvisited, optimized >>
splitVars == << i, currentDay, currentDayLocations, currentDaySegments,
                currentDayTime, currentDayDistance, dayPlans >>

NoPlan == [day_plans |-> << >>]

needsGeocode(req) ==
  \E k \in DOMAIN req : req[k].coordinates = None /\ req[k].address # None
needsPlace(req) ==
  \E k \in DOMAIN req : req[k].coordinates = None /\ req[k].place_id # None

\* A call that starts with the day plans the planner was left with.
newInvocation_KeepsDayPlans(locs, veh, cons) ==
  [locations |-> locs, vehicle |-> veh, constraints |-> cons, pc |-> "resolve",
   resolved |-> << >>, distanceMatrix |-> << >>, unvisited |-> << >>,
   optimized |-> << >>, schedule |-> << >>, i |-> 1, currentDay |-> 1,
   currentDayLocations |-> << >>, currentDaySegments |-> << >>,
   currentDayTime |-> 0, currentDayDistance |-> 0, dayPlans |-> dayPlans,
   result |-> NoPlan, error |-> << >>]

\* The locals of a planTrip call that has just been entered.
newInvocation(locs, veh, cons) ==
  [locations |-> locs, vehicle |-> veh, constraints |-> cons, pc |-> "resolve",
   resolved |-> << >>, distanceMatrix |-> << >>, unvisited |-> << >>,
   optimized |-> << >>, schedule |-> << >>, i |-> 1, currentDay |-> 1,
   currentDayLocations |-> << >>, currentDaySegments |-> << >>,
   currentDayTime |-> 0, currentDayDistance |-> 0, dayPlans |-> << >>,
   result |-> NoPlan, error |-> << >>]

\* No other call has been made.
NoInvocation == [pc |-> "absent"]

Init ==
  /\ suspended = NoInvocation
  /\ locations \in Requests
  /\ constraints \in ConstraintSets
  /\ geocodeMode \in (IF needsGeocode(locations) THEN GeocodeModes ELSE {"ok"})
  /\ placeMode \in (IF needsPlace(locations) THEN PlaceModes ELSE {"ok"})
  /\ matrixMode \in MatrixModes
  /\ vehicle \in (IF matrixMode = "throws" THEN Vehicles
                  ELSE {[type |-> "car", average_speed_kmh |-> 0]})
  /\ pc = "resolve"
  /\ resolved = << >>
  /\ calls = << >>
  /\ distanceMatrix = << >>
  /\ unvisited = << >>
  /\ optimized = << >>
  /\ schedule = << >>
  /\ i = 1
  /\ currentDay = 1
  /\ currentDayLocations = << >>
  /\ currentDaySegments = << >>
  /\ currentDayTime = 0
  /\ currentDayDistance = 0
  /\ dayPlans = << >>
  /\ result = NoPlan
  /\ error = << >>

\* A catch block that rethrows the message as it caught it.
planTripError_Rethrown(message) == message

\* The catch block of planTrip.
planTripError(message) == << "Route planning failed: " >> \o message

(***************************************************************************)
(* Step 1: resolveLocations.  A step runs from one await to the next: the  *)
(* request is made when the step ends, the answer is taken by the next one *)
(***************************************************************************)
\* The end of a loop iteration: the throw or the push.
AfterPlaceDetails(location, coordinates) ==
  /\ IF coordinates = None
     THEN /\ error' = planTripError(<< "Could not resolve coordinates for location: ",
                                       location.name >>)
          /\ pc' = "failed"
          /\ UNCHANGED resolved
     ELSE /\ resolved' = Append(resolved, [location EXCEPT !.coordinates = coordinates])
          /\ pc' = "resolve"
          /\ UNCHANGED error
  /\ UNCHANGED calls

\* A loop iteration from the end of its geocoding branch on.
AfterGeocoding(location, coordinates) ==
  IF placeRequested(location, coordinates)
  THEN /\ calls' = Append(calls, [fn |-> "getPlaceDetails", arg |-> location.place_id])
       /\ pc' = "awaitPlace"
       /\ UNCHANGED << resolved, error >>
  ELSE AfterPlaceDetails(location, coordinates)

\* The start of a loop iteration, up to its first await or to its end.
ResolveLocation ==
  /\ pc = "resolve"
  /\ Len(resolved) < Len(locations)
  /\ LET location == locations[Len(resolved) + 1]
     IN IF geocodeRequested(location)
        THEN /\ calls' = Append(calls, [fn |-> "geocode", arg |-> location.address])
             /\ pc' = "awaitGeocode"
             /\ UNCHANGED << resolved, error >>
        ELSE AfterGeocoding(location, location.coordinates)
  /\ UNCHANGED << inputVars, suspended, distanceMatrix, optimizeVars, schedule, splitVars, result >>

\* The geocoding collaborator has answered (or thrown).
GeocodeAnswer ==
  /\ pc = "awaitGeocode"
  /\ LET location == locations[Len(resolved) + 1]
     IN AfterGeocoding(location, geocodeBranch(location, geocodeMode))
  /\ UNCHANGED << inputVars, suspended, distanceMatrix, optimizeVars, schedule, splitVars, result >>

\* The place-details collaborator has answered (or thrown).
PlaceDetailsAnswer ==
  /\ pc = "awaitPlace"
  /\ LET location == locations[Len(resolved) + 1]
     IN AfterPlaceDetails(location, placeBranch(location, None, placeMode))
  /\ UNCHANGED << inputVars, suspended, distanceMatrix, optimizeVars, schedule, splitVars, result >>

(***************************************************************************)
(* Step 2: getDistanceMatrix: the request, then the answer                 *)
(***************************************************************************)
RequestDistanceMatrix ==
  /\ pc = "resolve"
  /\ Len(resolved) = Len(locations)
  /\ calls' = Append(calls, [fn |-> "getDistanceMatrix",
                             arg |-> coordinatesOf(resolved),
                             mode |-> getRouteMode(vehicle.type)])
  /\ pc' = "awaitMatrix"
  /\ UNCHANGED << inputVars, suspended, resolved, distanceMatrix, optimizeVars, schedule,
                  splitVars, result, error >>

\* The collaborator has answered (or thrown): the matrix is built.
GetDistanceMatrix ==
  /\ pc = "awaitMatrix"
  /\ distanceMatrix' = getDistanceMatrix(resolved, vehicle, matrixMode)
  /\ pc' = "optimize"
  /\ UNCHANGED << inputVars, suspended, resolved, calls, optimizeVars, schedule, splitVars,
                  result, error >>

(***************************************************************************)
(* Step 3: optimizeRoute                                                   *)
(***************************************************************************)
\* The sort and the seed.
OptimizeSeed ==
  /\ pc = "optimize"
  /\ LET sorted == sortByPriority([k \in 1..Len(resolved) |-> k], resolved)
     IN IF sorted = << >>
        THEN /\ optimized' = << UndefinedLoc >>
             /\ unvisited' = << >>
        ELSE /\ optimized' = << sorted[1] >>
             /\ unvisited' = RemoveAt(sorted, 1)
  /\ resolved' = locationsAfterSort(resolved)
  /\ pc' = "select"
  /\ UNCHANGED << inputVars, suspended, calls, distanceMatrix, schedule, splitVars,
                  result, error >>

\* One iteration of the while loop.
OptimizeSelect ==
  /\ pc = "select"
  /\ Len(unvisited) > 0
  /\ LET current == IndexOf([k \in 1..Len(resolved) |-> k], optimized[Len(optimized)])
         nearestIndex == nearestIndexOf(unvisited, current, distanceMatrix, resolved)
     IN IF rowMissing(current, distanceMatrix)
        THEN /\ error' = planTripError(<< "Cannot read properties of undefined" >>)
             /\ pc' = "failed"
             /\ UNCHANGED << optimized, unvisited >>
        ELSE /\ optimized' = Append(optimized, unvisited[nearestIndex])
             /\ unvisited' = RemoveAt(unvisited, nearestIndex)
             /\ UNCHANGED << pc, error >>
  /\ UNCHANGED << inputVars, suspended, resolved, calls, distanceMatrix, schedule, splitVars,
                  result >>

(***************************************************************************)
(* Step 4: calculateSchedule                                               *)
(***************************************************************************)
CalculateSchedule ==
  /\ pc = "select"
  /\ Len(unvisited) = 0
  /\ IF optimized[1] = UndefinedLoc
     THEN \* location.visit_duration_minutes on undefined
          /\ error' = planTripError(<< "Cannot read properties of undefined" >>)
          /\ pc' = "failed"
          /\ UNCHANGED schedule
     ELSE /\ schedule' = calculateSchedule(optimized, distanceMatrix, resolved, constraints)
          /\ pc' = "split"
          /\ UNCHANGED error
  /\ UNCHANGED << inputVars, suspended, resolved, calls, distanceMatrix, optimizeVars, splitVars, result >>

(***************************************************************************)
(* Step 5: createDayPlans, one loop iteration per step                     *)
(***************************************************************************)
CreateDayPlansStep ==
  /\ pc = "split"
  /\ i <= Len(schedule)
  /\ LET item == schedule[i]
         totalTimeNeeded == item.travel_time
                            + resolved[item.location].visit_duration_minutes
         split == exceedsDay(currentDayTime, totalTimeNeeded,
                             maxDayMinutesOf(constraints), currentDayLocations)
         dayLocs0 == IF split THEN << >> ELSE currentDayLocations
         daySegs0 == IF split THEN << >> ELSE currentDaySegments
         dayTime0 == IF split THEN 0 ELSE currentDayTime
         dayDist0 == IF split THEN 0 ELSE currentDayDistance
         dayLocs1 == Append(dayLocs0, item.location)
         prevLocation == prevLocationOf(dayLocs1)
         segment == [from |-> prevLocation,
                     to |-> item.location,
                     distance_km |-> estimateDistance(resolved[prevLocation],
                                                      resolved[item.location]),
                     travel_time_minutes |-> item.travel_time,
                     departure_time |-> schedule[i - 1].departure,
                     arrival_time |-> item.arrival]
     IN /\ dayPlans' = IF split
                       THEN Append(dayPlans,
                                   createDayPlan(currentDay, currentDayLocations,
                                                 currentDaySegments, currentDayDistance,
                                                 currentDayTime, constraints, resolved))
                       ELSE dayPlans
        /\ currentDay' = IF split THEN currentDay + 1 ELSE currentDay
        /\ currentDayLocations' = dayLocs1
        /\ currentDayTime' = dayTime0 + totalTimeNeeded
        /\ IF Len(dayLocs1) > 1
           THEN /\ currentDaySegments' = Append(daySegs0, segment)
                /\ currentDayDistance' = dayDist0 + segment.distance_km
           ELSE /\ currentDaySegments' = daySegs0
                /\ currentDayDistance' = dayDist0
  /\ i' = i + 1
  /\ UNCHANGED << inputVars, suspended, pc, resolved, calls, distanceMatrix, optimizeVars, schedule,
                  result, error >>

\* After the loop: the final day.
CreateDayPlansEnd ==
  /\ pc = "split"
  /\ i > Len(schedule)
  /\ dayPlans' = IF Len(currentDayLocations) > 0
                 THEN Append(dayPlans,
                             createDayPlan(currentDay, currentDayLocations,
                                           currentDaySegments, currentDayDistance,
                                           currentDayTime, constraints, resolved))
                 ELSE dayPlans
  /\ pc' = "aggregate"
  /\ UNCHANGED << inputVars, suspended, resolved, calls, distanceMatrix, optimizeVars, schedule,
                  i, currentDay, currentDayLocations, currentDaySegments, currentDayTime,
                  currentDayDistance, result, error >>

(***************************************************************************)
(* Step 6: generateTripPlan                                                *)
(***************************************************************************)
GenerateTripPlan ==
  /\ pc = "aggregate"
  /\ result' = generateTripPlan(dayPlans, resolved, constraints)
  /\ pc' = "done"
  /\ UNCHANGED << inputVars, suspended, resolved, calls, distanceMatrix, optimizeVars, schedule,
                  splitVars, error >>

Next ==
  \/ ResolveLocation
  \/ GeocodeAnswer
  \/ PlaceDetailsAnswer
  \/ RequestDistanceMatrix
  \/ GetDistanceMatrix
  \/ OptimizeSeed
  \/ OptimizeSelect
  \/ CalculateSchedule
  \/ CreateDayPlansStep
  \/ CreateDayPlansEnd
  \/ GenerateTripPlan

Spec == Init /\ [][Next]_vars

(***************************************************************************)
(* planTrip as one function of its arguments and of the collaborators      *)
(***************************************************************************)
\* The loop of resolveLocations run to its end or to its throw.
RECURSIVE resolveLocations(_, _, _, _)
resolveLocations(locs, acc, gMode, pMode) ==
  IF Len(acc) = Len(locs) THEN [thrown |-> << >>, resolved |-> acc]
  ELSE LET location == locs[Len(acc) + 1]
           coordinates == resolveCoordinates(location, gMode, pMode)
       IN IF coordinates = None
          THEN [thrown |-> << "Could not resolve coordinates for location: ",
                              location.name >>,
                resolved |-> acc]
          ELSE resolveLocations(locs, Append(acc, [location EXCEPT
                                                     !.coordinates = coordinates]),
                                gMode, pMode)

\* The loop of createDayPlans from schedule item k on; d holds its locals.
RECURSIVE createDayPlansLoop(_, _, _, _, _)
createDayPlansLoop(k, d, sched, cons, locs) ==
  IF k > Len(sched)
  THEN IF Len(d.currentDayLocations) > 0
       THEN Append(d.dayPlans,
                   createDayPlan(d.currentDay, d.currentDayLocations,
                                 d.currentDaySegments, d.currentDayDistance,
                                 d.currentDayTime, cons, locs))
       ELSE d.dayPlans
  ELSE LET item == sched[k]
           totalTimeNeeded == item.travel_time
                              + locs[item.location].visit_duration_minutes
           split == exceedsDay(d.currentDayTime, totalTimeNeeded,
                               maxDayMinutesOf(cons), d.currentDayLocations)
           dayLocs0 == IF split THEN << >> ELSE d.currentDayLocations
           daySegs0 == IF split THEN << >> ELSE d.currentDaySegments
           dayTime0 == IF split THEN 0 ELSE d.currentDayTime
           dayDist0 == IF split THEN 0 ELSE d.currentDayDistance
           dayLocs1 == Append(dayLocs0, item.location)
           prevLocation == prevLocationOf(dayLocs1)
           segment == [from |-> prevLocation,
                       to |-> item.location,
                       distance_km |-> estimateDistance(locs[prevLocation],
                                                        locs[item.location]),
                       travel_time_minutes |-> item.travel_time,
                       departure_time |-> sched[k - 1].departure,
                       arrival_time |-> item.arrival]
           more == Len(dayLocs1) > 1
       IN createDayPlansLoop(k + 1,
            [currentDay |-> IF split THEN d.currentDay + 1 ELSE d.currentDay,
             currentDayLocations |-> dayLocs1,
             currentDaySegments |-> IF more THEN Append(daySegs0, segment) ELSE daySegs0,
             currentDayTime |-> dayTime0 + totalTimeNeeded,
             currentDayDistance |-> IF more THEN dayDist0 + segment.distance_km
                                    ELSE dayDist0,
             dayPlans |-> IF split
                          THEN Append(d.dayPlans,
                                      createDayPlan(d.currentDay, d.currentDayLocations,
                                                    d.currentDaySegments,
                                                    d.currentDayDistance,
                                                    d.currentDayTime, cons, locs))
                          ELSE d.dayPlans],
            sched, cons, locs)

createDayPlans(sched, cons, locs) ==
  createDayPlansLoop(1, [currentDay |-> 1, currentDayLocations |-> << >>,
                         currentDaySegments |-> << >>, currentDayTime |-> 0,
                         currentDayDistance |-> 0, dayPlans |-> << >>],
                     sched, cons, locs)

\* What one planTrip call returns or throws when nothing else runs.
planTrip(locs, veh, cons, gMode, pMode, mMode) ==
  LET resolution == resolveLocations(locs, << >>, gMode, pMode)
      resolvedLocations == resolution.resolved
      matrix == getDistanceMatrix(resolvedLocations, veh, mMode)
      optimizedOrder == optimizeRoute(resolvedLocations, matrix)
  IN IF resolution.thrown # << >>
     THEN [result |-> NoPlan, error |-> planTripError(resolution.thrown)]
     ELSE IF optimizedOrder = Thrown \/ optimizedOrder[1] = UndefinedLoc
     THEN [result |-> NoPlan,
           error |-> planTripError(<< "Cannot read properties of undefined" >>)]
     ELSE [result |-> generateTripPlan(
                        createDayPlans(calculateSchedule(optimizedOrder, matrix,
                                                         resolvedLocations, cons),
                                       cons, resolvedLocations),
                        resolvedLocations, cons),
           error |-> << >>]

(***************************************************************************)
(* Two planTrip calls on one planner                                       *)
(***************************************************************************)
\* The locals of the call that is running.
running ==
  [locations |-> locations, vehicle |-> vehicle, constraints |-> constraints,
   pc |-> pc, resolved |-> resolved, distanceMatrix |-> distanceMatrix,
   unvisited |-> unvisited, optimized |-> optimized, schedule |-> schedule,
   i |-> i, currentDay |-> currentDay, currentDayLocations |-> currentDayLocations,
   currentDaySegments |-> currentDaySegments, currentDayTime |-> currentDayTime,
   currentDayDistance |-> currentDayDistance, dayPlans |-> dayPlans,
   result |-> result, error |-> error]

\* Control passes to the call whose locals are f, the resolved list being
\* one list of the planner that every call appends to.
resume_SharedResolved(f) ==
  /\ locations' = f.locations
  /\ vehicle' = f.vehicle
  /\ constraints' = f.constraints
  /\ pc' = f.pc
  /\ resolved' = resolved
  /\ distanceMatrix' = f.distanceMatrix
  /\ unvisited' = f.unvisited
  /\ optimized' = f.optimized
  /\ schedule' = f.schedule
  /\ i' = f.i
  /\ currentDay' = f.currentDay
  /\ currentDayLocations' = f.currentDayLocations
  /\ currentDaySegments' = f.currentDaySegments
  /\ currentDayTime' = f.currentDayTime
  /\ currentDayDistance' = f.currentDayDistance
  /\ dayPlans' = f.dayPlans
  /\ result' = f.result
  /\ error' = f.error

\* Control passes to the call whose locals are f.
resume(f) ==
  /\ locations' = f.locations
  /\ vehicle' = f.vehicle
  /\ constraints' = f.constraints
  /\ pc' = f.pc
  /\ resolved' = f.resolved
  /\ distanceMatrix' = f.distanceMatrix
  /\ unvisited' = f.unvisited
  /\ optimized' = f.optimized
  /\ schedule' = f.schedule
  /\ i' = f.i
  /\ currentDay' = f.currentDay
  /\ currentDayLocations' = f.currentDayLocations
  /\ currentDaySegments' = f.currentDaySegments
  /\ currentDayTime' = f.currentDayTime
  /\ currentDayDistance' = f.currentDayDistance
  /\ dayPlans' = f.dayPlans
  /\ result' = f.result
  /\ error' = f.error

\* planTrip yields at its awaits: on the geocoding, place-details and matrix
\* collaborators, and on the promises of resolveLocations and
\* getDistanceMatrix once they have returned; from optimizeRoute on it runs to
\* its return.
atAwait ==
  \/ pc \in {"awaitGeocode", "awaitPlace", "awaitMatrix", "optimize"}
  \/ pc = "resolve" /\ Len(resolved) = Len(locations)
finished(f) == f.pc \in {"done", "failed"}

\* The requests of the two-call runs: up to MaxLocs - 1 of four locations.
ConcurrentRequests ==
  { s \in Requests : /\ Len(s) < MaxLocs
                     /\ \A k \in DOMAIN s : s[k].name \in {"A", "E", "F", "G"} }

ConcurrentConstraints == { c \in ConstraintSets : c.end_time = <<10, 30>> }

\* The matrix collaborator of the two-call runs answers in full or raises.
ConcurrentMatrixModes == { m \in MatrixModes : m \in {"triangle", "throws"} }

InitTwo ==
  /\ suspended = NoInvocation
  /\ locations \in ConcurrentRequests
  /\ constraints \in ConcurrentConstraints
  /\ geocodeMode \in GeocodeModes
  /\ placeMode \in PlaceModes
  /\ matrixMode \in ConcurrentMatrixModes
  /\ vehicle = [type |-> "car", average_speed_kmh |-> 0]
  /\ pc = "resolve"
  /\ resolved = << >>
  /\ calls = << >>
  /\ distanceMatrix = << >>
  /\ unvisited = << >>
  /\ optimized = << >>
  /\ schedule = << >>
  /\ i = 1
  /\ currentDay = 1
  /\ currentDayLocations = << >>
  /\ currentDaySegments = << >>
  /\ currentDayTime = 0
  /\ currentDayDistance = 0
  /\ dayPlans = << >>
  /\ result = NoPlan
  /\ error = << >>

\* planTrip is called a second time while the first call waits or after it
\* has returned.
PlanTripAgain ==
  /\ suspended = NoInvocation
  /\ atAwait \/ finished(running)
  /\ \E locs \in ConcurrentRequests, cons \in ConcurrentConstraints :
       resume(newInvocation(locs, vehicle, cons))
  /\ suspended' = running
  /\ UNCHANGED << geocodeMode, placeMode, matrixMode, calls >>

\* The running call waits on a collaborator, or has returned, and the other
\* call goes on.
SwitchInvocation ==
  /\ suspended # NoInvocation
  /\ ~finished(suspended)
  /\ atAwait \/ finished(running)
  /\ resume(suspended)
  /\ suspended' = running
  /\ UNCHANGED << geocodeMode, placeMode, matrixMode, calls >>

NextTwo ==
  \/ Next
  \/ PlanTripAgain
  \/ SwitchInvocation

SpecTwo == InitTwo /\ [][NextTwo]_vars

(***************************************************************************)
(* Properties                                                              *)
(***************************************************************************)
\* Notions the properties share, stated on the caller's input.
windowLength == (constraints.end_time[1] * 60 + constraints.end_time[2])
                - (constraints.start_time[1] * 60 + constraints.start_time[2])

\* The rank of a location's priority, an omitted one counting as medium.
rankOf(loc) ==
  IF loc.priority = "high" THEN 3 ELSE IF loc.priority = "low" THEN 1 ELSE 2

\* Position of a location in the linear schedule.
stopOf(loc) == CHOOSE k \in DOMAIN schedule : schedule[k].location = loc

\* travel_time + visit_duration of the schedule's k-th stop.
stopNeed(k) ==
  schedule[k].travel_time + locations[schedule[k].location].visit_duration_minutes

\* Number of places where location k occurs in the day plans and the unvisited list.
occurrences(plan, k) ==
  Cardinality({ dp \in { <<d, q>> : d \in DOMAIN plan.day_plans, q \in 1..MaxLocs + 1 } :
                  /\ dp[2] \in DOMAIN plan.day_plans[dp[1]].locations
                  /\ plan.day_plans[dp[1]].locations[dp[2]] = k })
  + Cardinality({ q \in DOMAIN plan.unvisited_locations :
                  plan.unvisited_locations[q] = k })

\* C1: in every TripPlan returned, each input location occurs exactly once
\* among the day plans' location lists and unvisited_locations.
C1_EveryLocationExactlyOnce ==
  pc = "done" =>
    /\ Len(resolved) = Len(locations)
    /\ \A k \in DOMAIN locations :
         /\ resolved[k].name = locations[k].name
         /\ occurrences(result, k) = 1

C1_Witness ==
  /\ pc = "done"
  /\ Len(locations) = 3
  /\ Len(result.day_plans) >= 2
  /\ \E a, b \in DOMAIN distanceMatrix : a # b /\ distanceMatrix[a][b] = Unreachable

\* The whole schedule: all visit durations plus the travel times of its stops.
wholeScheduleMinutes ==
  SumSeq([k \in DOMAIN schedule |-> stopNeed(k)])

\* C2: feasible_in_single_day is true exactly when the whole schedule fits in
\* the window; then there is one feasible DayPlan holding every location; when
\* it does not fit and there are two or more locations, recommended_days > 1.
C2_SingleDayIffScheduleFits ==
  pc = "done" =>
    LET fits == wholeScheduleMinutes <= windowLength
    IN /\ result.feasible_in_single_day <=> fits
       /\ fits => /\ Len(result.day_plans) = 1
                  /\ result.day_plans[1].feasible
                  /\ Len(result.day_plans[1].locations) = Len(locations)
       /\ (~fits /\ Len(locations) >= 2) => result.recommended_days > 1

C2_Witness ==
  /\ pc = "done"
  /\ Len(locations) = 3
  /\ result.feasible_in_single_day
  /\ wholeScheduleMinutes > 90

\* C3: a DayPlan's total_visit_time_minutes is the sum of the visit durations
\* of exactly its own locations.
C3_VisitTimeIsSumOfDurations ==
  \A d \in DOMAIN dayPlans :
    dayPlans[d].total_visit_time_minutes =
      SumSeq([q \in DOMAIN dayPlans[d].locations |->
                locations[dayPlans[d].locations[q]].visit_duration_minutes])

C3_Witness ==
  /\ pc = "done"
  /\ Len(dayPlans) >= 2
  /\ \E d \in DOMAIN dayPlans :
       /\ Len(dayPlans[d].locations) >= 2
       /\ dayPlans[d].total_travel_time_minutes > 0
       /\ dayPlans[d].total_visit_time_minutes = 60

\* C4: the splitter starts a new day before a stop exactly when the current day
\* holds a location and day_time + travel_time + visit_duration exceeds the
\* window; otherwise the stop joins the current day; on a split the day index
\* grows by one and day_time restarts from 0 before the stop is added.
C4_SplitRule ==
  [][ (pc = "split" /\ i <= Len(schedule)) =>
        LET loc == schedule[i].location
            overflow == /\ Len(currentDayLocations) >= 1
                        /\ currentDayTime + stopNeed(i) > windowLength
        IN /\ overflow =>
                /\ currentDay' = currentDay + 1
                /\ currentDayLocations' = << loc >>
                /\ currentDayTime' = 0 + stopNeed(i)
                /\ Len(dayPlans') = Len(dayPlans) + 1
                /\ dayPlans'[Len(dayPlans')].locations = currentDayLocations
           /\ ~overflow =>
                /\ currentDay' = currentDay
                /\ currentDayLocations' = Append(currentDayLocations, loc)
                /\ currentDayTime' = currentDayTime + stopNeed(i)
                /\ dayPlans' = dayPlans ]_vars

C4_Witness ==
  /\ pc = "split"
  /\ currentDay = 2
  /\ Len(currentDayLocations) = 1
  /\ Len(dayPlans) = 1
  /\ Len(dayPlans[1].locations) = 2
  /\ dayPlans[1].feasible

\* The time a day plan accumulated: travel_time + visit_duration of its stops.
dayMinutes(plan) ==
  SumSeq([q \in DOMAIN plan.locations |-> stopNeed(stopOf(plan.locations[q]))])

\* C5 as stated: every DayPlan the splitter closes on an overflow is feasible.
C5_ClosedDayAlwaysFeasible ==
  pc = "split" => \A d \in DOMAIN dayPlans : dayPlans[d].feasible

\* C5 amended: a DayPlan the splitter closes on an overflow is feasible unless
\* it consists of a single stop whose own travel_time + visit_duration exceeds
\* the window; such a day is closed with feasible = false.
C5_ClosedDayFeasibleUnlessSingleOverlongStop ==
  pc = "split" =>
    \A d \in DOMAIN dayPlans :
      dayPlans[d].feasible <=>
        ~ ( /\ Len(dayPlans[d].locations) = 1
            /\ stopNeed(stopOf(dayPlans[d].locations[1])) > windowLength )

C5_Witness ==
  /\ pc = "split"
  /\ Len(dayPlans) = 2
  /\ ~dayPlans[1].feasible
  /\ Len(dayPlans[1].locations) = 1
  /\ dayPlans[2].feasible

\* C6: a stop whose own travel_time + visit_duration exceeds the window is kept
\* and planning does not fail on it: it is the first stop of a DayPlan that has
\* feasible = false, an issue naming the overflow as the day's accumulated time
\* minus the window length, and a suggestion.
C6_OverlongStopKeptAndFlagged ==
  /\ pc = "failed" => schedule = << >>
  /\ pc = "done" =>
       \A k \in DOMAIN schedule :
         stopNeed(k) > windowLength =>
           \E d \in DOMAIN result.day_plans :
             LET plan == result.day_plans[d]
             IN /\ plan.locations[1] = schedule[k].location
                /\ ~plan.feasible
                /\ \E q \in DOMAIN plan.issues :
                     plan.issues[q] = [kind |-> "exceedsTimeLimit",
                                       by |-> dayMinutes(plan) - windowLength]
                /\ Len(plan.suggestions) > 0

C6_Witness ==
  /\ pc = "done"
  /\ windowLength > 0
  /\ \E k \in DOMAIN schedule :
       /\ k > 1
       /\ locations[schedule[k].location].visit_duration_minutes > windowLength
       /\ schedule[k].travel_time > 0

\* planTrip is inside resolveLocations; it has no travel-time matrix yet.
inResolution == pc \in {"resolve", "awaitGeocode", "awaitPlace"}
beforeMatrix == pc \in {"resolve", "awaitGeocode", "awaitPlace", "awaitMatrix"}

\* A location no collaborator answer gives coordinates to.
unresolvable(loc) ==
  /\ loc.coordinates = None
  /\ loc.address = None \/ geocodeMode \in {"empty", "throws"}
  /\ loc.place_id = None \/ placeMode \in {"noGeometry", "throws"}

\* C7: when an input location cannot be resolved, planTrip returns no TripPlan
\* and fails with a message that contains 'Could not resolve coordinates' and
\* the name of the location resolution stopped at (the first such location).
C7_UnresolvableLocationFails ==
  (\E k \in DOMAIN locations : unresolvable(locations[k])) =>
    LET first == CHOOSE k \in DOMAIN locations :
                   /\ unresolvable(locations[k])
                   /\ \A j \in 1..(k - 1) : ~unresolvable(locations[j])
    IN /\ inResolution \/ pc = "failed"
       /\ result = NoPlan
       /\ Len(resolved) < first
       /\ pc = "failed" =>
            /\ \E q \in DOMAIN error :
                 error[q] = "Could not resolve coordinates for location: "
            /\ \E q \in DOMAIN error : error[q] = locations[first].name

C7_Witness ==
  /\ pc = "failed"
  /\ Len(resolved) >= 1
  /\ Len(calls) >= 2
  /\ calls[Len(calls)].fn = "getPlaceDetails"
  /\ error[Len(error)] = locations[Len(resolved) + 1].name

\* Every input location gets coordinates.
allResolvable == \A k \in DOMAIN locations : ~unresolvable(locations[k])

\* The speed the estimator divides by.
estimatorSpeed ==
  IF vehicle.average_speed_kmh # 0 THEN vehicle.average_speed_kmh
  ELSE IF vehicle.type = "walking" THEN 5
  ELSE IF vehicle.type = "bike" THEN 15
  ELSE IF vehicle.type = "public_transport" THEN 25 ELSE 40

\* m is the great-circle distance in metres at the estimator's speed, in
\* minutes rounded up.
isEstimate(m, metres) ==
  /\ m * estimatorSpeed * 1000 >= metres * 60
  /\ (m - 1) * estimatorSpeed * 1000 < metres * 60

matrixIsEstimated ==
  /\ Len(distanceMatrix) = Len(resolved)
  /\ \A a, b \in DOMAIN resolved :
       isEstimate(distanceMatrix[a][b],
                  Haversine(resolved[a].coordinates, resolved[b].coordinates))

\* C8 as stated: whenever the distance-matrix collaborator raises and every
\* location resolves, planTrip does not fail.
C8_MatrixErrorNeverFailsPlanning ==
  (matrixMode = "throws" /\ allResolvable) => pc # "failed"

\* C8 amended: when the distance-matrix collaborator raises, every location
\* resolves and there is at least one location, planTrip does not fail: the
\* travel-time matrix is the estimator's and a TripPlan is returned.
C8_MatrixErrorFallsBackToEstimator ==
  (matrixMode = "throws" /\ allResolvable /\ Len(locations) >= 1) =>
    /\ pc # "failed"
    /\ error = << >>
    /\ ~beforeMatrix => matrixIsEstimated
    /\ pc = "done" => Len(result.day_plans) >= 1

C8_Witness ==
  /\ pc = "done"
  /\ matrixMode = "throws"
  /\ Len(locations) = 3
  /\ vehicle.average_speed_kmh # 0
  /\ calls[Len(calls)].fn = "getDistanceMatrix"
  /\ distanceMatrix[1][2] > 0

\* C9: the first location of day 1 is the first location in input order among
\* those of the highest priority rank present in the request.
C9_FirstStopIsFirstOfHighestPriority ==
  pc = "done" =>
    LET firstStop == result.day_plans[1].locations[1]
    IN /\ \A k \in DOMAIN locations : rankOf(locations[k]) <= rankOf(locations[firstStop])
       /\ \A k \in 1..(firstStop - 1) :
            rankOf(locations[k]) < rankOf(locations[firstStop])

C9_Witness ==
  /\ pc = "done"
  /\ Len(locations) = 3
  /\ result.day_plans[1].locations[1] = 2
  /\ rankOf(locations[3]) = rankOf(locations[2])
  /\ rankOf(locations[1]) < rankOf(locations[2])

\* C10: at every selection step of the optimizer, the location selected is
\* never one for which another unvisited location of strictly higher priority
\* has a travel time from the current location that is no greater.
C10_PriorityBias ==
  [][ (pc = "select" /\ Len(unvisited) > 0 /\ pc' = "select") =>
        LET current == optimized[Len(optimized)]
            selected == optimized'[Len(optimized')]
        IN /\ Len(optimized') = Len(optimized) + 1
           /\ selected \in Range(unvisited)
           /\ \A h \in Range(unvisited) :
                rankOf(locations[h]) > rankOf(locations[selected]) =>
                  ~ (distanceMatrix[current][h] <= distanceMatrix[current][selected]) ]_vars

C10_Witness ==
  /\ pc = "select"
  /\ Len(optimized) = 2
  /\ Len(unvisited) = 1
  /\ rankOf(locations[unvisited[1]]) > rankOf(locations[optimized[2]])
  /\ distanceMatrix[optimized[1]][unvisited[1]] > distanceMatrix[optimized[1]][optimized[2]]

\* The resolved request with every omitted priority written as 'medium'.
asMedium ==
  [k \in DOMAIN resolved |->
    IF resolved[k].priority = None THEN [resolved[k] EXCEPT !.priority = "medium"]
    ELSE resolved[k]]

\* C11: a location whose priority is omitted is planned exactly as if its
\* priority were 'medium': the visit order and the times of the schedule are
\* those of the request with 'medium' written in.
C11_OmittedPriorityPlannedAsMedium ==
  pc \in {"split", "aggregate", "done"} =>
    LET order == optimizeRoute(asMedium, distanceMatrix)
    IN /\ optimized = order
       /\ schedule = calculateSchedule(order, distanceMatrix, asMedium, constraints)

\* C12: planTrip called with end_time not later than start_time returns no
\* TripPlan and fails with an invalid-constraints error.
C12_NonPositiveWindowFails ==
  windowLength <= 0 =>
    /\ pc # "done"
    /\ result = NoPlan
    /\ pc = "failed" => \E q \in DOMAIN error : error[q] = "Invalid constraints"

\* C15: a DayPlan with k locations has exactly k - 1 route segments, and its
\* i-th segment goes from the day's i-th location to its (i+1)-th.
C15_SegmentsJoinConsecutiveLocations ==
  \A d \in DOMAIN result.day_plans :
    LET plan == result.day_plans[d]
    IN /\ Len(plan.route_segments) = Len(plan.locations) - 1
       /\ \A j \in DOMAIN plan.route_segments :
            /\ plan.route_segments[j].from = plan.locations[j]
            /\ plan.route_segments[j].to = plan.locations[j + 1]

\* A returned plan with a day of three locations and two segments.
C15_Witness ==
  /\ pc = "done"
  /\ \E d \in DOMAIN result.day_plans :
       /\ Len(result.day_plans[d].locations) = 3
       /\ Len(result.day_plans[d].route_segments) = 2

\* C16: resolving a location uses the given coordinates when present and then
\* calls no collaborator; otherwise it geocodes the address and uses the first
\* result; place details are asked, with place_id, only when that gave no
\* coordinate (no address, empty result or a raised error).
C16_ResolutionOrder ==
  [][(inResolution /\ Len(resolved) < Len(locations)) =>
      LET location == locations[Len(resolved) + 1]
          made == SubSeq(calls', Len(calls) + 1, Len(calls'))
          geocodeCall == [fn |-> "geocode", arg |-> location.address]
          placeCall == [fn |-> "getPlaceDetails", arg |-> location.place_id]
          geocodeYields == location.address # None /\ geocodeMode = "ok"
      IN /\ location.coordinates # None =>
              /\ made = << >>
              /\ resolved' = Append(resolved, location)
         /\ location.coordinates = None =>
              /\ pc = "resolve" =>
                   /\ resolved' = resolved
                   /\ made = IF location.address # None THEN << geocodeCall >>
                             ELSE IF location.place_id # None THEN << placeCall >>
                             ELSE << >>
              /\ pc = "awaitGeocode" =>
                   /\ calls[Len(calls)] = geocodeCall
                   /\ geocodeYields =>
                        /\ made = << >>
                        /\ resolved' = Append(resolved,
                             [location EXCEPT !.coordinates = GeocodeSite(location.address)])
                   /\ ~geocodeYields =>
                        /\ resolved' = resolved
                        /\ made = IF location.place_id # None THEN << placeCall >>
                                  ELSE << >>
              /\ pc = "awaitPlace" =>
                   /\ calls[Len(calls)] = placeCall
                   /\ ~geocodeYields
                   /\ made = << >>
  ]_vars

\* Every location resolved, one of them with coordinates given next to an
\* address, and a geocoding call that was followed by a place-details call.
C16_Witness ==
  /\ Len(locations) > 0
  /\ Len(resolved) = Len(locations)
  /\ \E k \in DOMAIN locations :
       locations[k].coordinates # None /\ locations[k].address # None
  /\ \E q \in DOMAIN calls :
       /\ q + 1 \in DOMAIN calls
       /\ calls[q].fn = "geocode"
       /\ calls[q + 1].fn = "getPlaceDetails"

\* C17: the travel time recorded for every stop after the first is the
\* travel-time matrix entry from the previous stop's location to this stop's
\* location, the matrix being indexed by positions in the resolved list.
C17_TravelTimeIsMatrixEntryOfResolvedPositions ==
  \A k \in DOMAIN schedule :
    k > 1 => schedule[k].travel_time
               = distanceMatrix[schedule[k - 1].location][schedule[k].location]

\* Ten times the weighted travel time the selection rule gives candidate c
\* seen from the location placed last: 0.8 for high, 0.9 for medium (the
\* default priority), 1.0 for low.
weightedTime(current, c) ==
  distanceMatrix[current][c]
    * (CASE asMedium[c].priority = "high" -> 8
         [] asMedium[c].priority = "medium" -> 9
         [] asMedium[c].priority = "low" -> 10)

\* C18: after the seed, each next stop is an unvisited location minimizing
\* travel_time(current, candidate) x priority_bonus(candidate), bonus 0.8 for
\* high, 0.9 for medium, 1.0 for low, current being the location placed last;
\* among equal weighted times the earliest in the priority-sorted list wins.
C18_NextStopMinimizesWeightedTime ==
  [][ (pc = "select" /\ Len(unvisited) > 0 /\ pc' = "select") =>
        LET current == optimized[Len(optimized)]
            chosen == optimized'[Len(optimized')]
        IN /\ Len(optimized') = Len(optimized) + 1
           /\ \E q \in DOMAIN unvisited :
                /\ unvisited[q] = chosen
                /\ \A r \in DOMAIN unvisited :
                     /\ weightedTime(current, chosen) <= weightedTime(current, unvisited[r])
                     /\ r < q => weightedTime(current, chosen)
                                   < weightedTime(current, unvisited[r]) ]_vars

\* Minutes since midnight at which stop k of the schedule is reached: the
\* start time, the travel times up to k and the visits before k.
minutesAtArrival(k) ==
  parseTime(constraints.start_time)
    + SumSeq([j \in 1..k |-> schedule[j].travel_time])
    + SumSeq([j \in 1..(k - 1) |-> resolved[schedule[j].location].visit_duration_minutes])

\* C19: the first stop arrives at start_time with travel time 0, each later
\* stop arrives at the previous departure plus its travel time, every
\* departure is arrival plus visit duration; the values are plain minute
\* counts, never reduced modulo 1440, so arrivals are non-decreasing and a
\* time past 24:00 is shown with an hour of 24 or more.
C19_ScheduleClockArithmetic ==
  \A k \in DOMAIN schedule :
    LET stop == schedule[k]
        visit == resolved[stop.location].visit_duration_minutes
    IN /\ k = 1 => stop.arrival = constraints.start_time /\ stop.travel_time = 0
       /\ k > 1 =>
            /\ parseTime(stop.arrival)
                 = parseTime(schedule[k - 1].departure) + stop.travel_time
            /\ parseTime(stop.arrival) >= parseTime(schedule[k - 1].arrival)
       /\ parseTime(stop.departure) = parseTime(stop.arrival) + visit
       /\ parseTime(stop.arrival) = minutesAtArrival(k)
       /\ stop.arrival[2] \in 0..59
       /\ stop.departure[2] \in 0..59
       /\ minutesAtArrival(k) >= 1440 => stop.arrival[1] >= 24
       /\ minutesAtArrival(k) + visit >= 1440 => stop.departure[1] >= 24

\* A schedule whose second stop is reached before 24:00 after an ordinary
\* travel time, and whose third stop arrives past 24:00.
C19_Witness ==
  /\ Len(schedule) = 3
  /\ schedule[2].travel_time \in 1..60
  /\ schedule[2].arrival[1] < 24
  /\ schedule[3].arrival[1] >= 24

\* The positions of the DistanceMatrix calls in the log of collaborator calls.
matrixCalls == { q \in DOMAIN calls : calls[q].fn = "getDistanceMatrix" }

\* Resolution stopped at a location that could not be resolved.
resolutionFailed == pc = "failed" /\ Len(resolved) < Len(locations)

\* C20: within one planTrip call the DistanceMatrix collaborator is called at
\* most once, only after every location has been resolved, with the
\* coordinates in input order; once the resolution of a location has failed
\* no collaborator is called, for a later location or for the matrix.
C20_OneMatrixCallAfterResolution ==
  /\ Cardinality(matrixCalls) <= 1
  /\ \A q \in matrixCalls :
       /\ q = Len(calls)
       /\ Len(resolved) = Len(locations)
       /\ Len(calls[q].arg) = Len(locations)
       /\ \A k \in DOMAIN locations :
            /\ resolved[k].name = locations[k].name
            /\ calls[q].arg[k] = resolved[k].coordinates
            /\ locations[k].coordinates # None =>
                 calls[q].arg[k] = locations[k].coordinates
  /\ resolutionFailed =>
       /\ matrixCalls = {}
       /\ \A q \in DOMAIN calls : \A k \in DOMAIN locations :
            k > Len(resolved) + 1 =>
              calls[q].arg \notin {locations[k].address, locations[k].place_id}

\* A finished call for three locations, one of them resolved through a
\* collaborator, whose single matrix call names a different first and last
\* coordinate.
C20_Witness ==
  /\ pc = "done"
  /\ Len(locations) = 3
  /\ Cardinality(matrixCalls) = 1
  /\ Len(calls) >= 2
  /\ calls[Len(calls)].arg[1] # calls[Len(calls)].arg[3]

\* The result and error a call's locals hold.
outcome(f) == [result |-> f.result, error |-> f.error]

\* C13: calling planTrip twice with identical locations, vehicle and
\* constraints against collaborators that answer deterministically yields
\* identical TripPlans: same days, same order, same travel and clock times.
C13_SameInputsSamePlan ==
  (/\ finished(running)
   /\ finished(suspended)
   /\ locations = suspended.locations
   /\ vehicle = suspended.vehicle
   /\ constraints = suspended.constraints)
  => /\ outcome(running) = outcome(suspended)
     /\ optimized = suspended.optimized
     /\ schedule = suspended.schedule
     /\ dayPlans = suspended.dayPlans

\* Two calls with the same two locations have both returned a plan.
C13_Witness ==
  /\ pc = "done"
  /\ suspended.pc = "done"
  /\ Len(locations) = 2
  /\ locations = suspended.locations
  /\ constraints = suspended.constraints
  /\ Len(result.day_plans) >= 1

\* C14: two planTrip calls on one planner whose awaits interleave in any order
\* each return the TripPlan, or the error, they return when run alone.
C14_InterleavedCallsAreIndependent ==
  /\ finished(running) =>
       outcome(running) = planTrip(locations, vehicle, constraints,
                                   geocodeMode, placeMode, matrixMode)
  /\ finished(suspended) =>
       outcome(suspended) = planTrip(suspended.locations, suspended.vehicle,
                                     suspended.constraints,
                                     geocodeMode, placeMode, matrixMode)

\* Both calls have returned a plan for different requests, and the log of
\* collaborator calls shows a call of one between two calls of the other.
C14_Witness ==
  /\ pc = "done"
  /\ suspended.pc = "done"
  /\ Len(locations) = 2
  /\ Len(suspended.locations) = 2
  /\ Range(locations) \cap Range(suspended.locations) = {}
  /\ \E q \in DOMAIN calls :
       /\ q + 2 \in DOMAIN calls
       /\ \A r \in q..(q + 2) : calls[r].fn # "getDistanceMatrix"
       /\ calls[q].arg \in {locations[1].address, locations[1].place_id}
       /\ calls[q + 1].arg \in {suspended.locations[1].address,
                                suspended.locations[1].place_id}
       /\ calls[q + 2].arg \in {locations[2].address, locations[2].place_id}

\* C21: each entry of the travel-time matrix built from a successful
\* DistanceMatrix response is the reported duration in seconds divided by 60
\* and rounded up to whole minutes, for every duration, 0 seconds included.
C21_MatrixEntryIsDurationRoundedUp ==
  (matrixMode # "throws" /\ ~beforeMatrix /\ pc # "failed") =>
    \A a \in DOMAIN distanceMatrix : \A b \in DOMAIN distanceMatrix[a] :
      distanceMatrix[a][b]
        = CeilDiv(ApiDuration(matrixMode, resolved[a].coordinates,
                              resolved[b].coordinates), 60)

\* The plan returned carries the note 'Trip requires N days ...'.
hasMultiDayNote ==
  \E q \in DOMAIN result.optimization_notes :
    result.optimization_notes[q].kind = "requiresDays"

\* C22: the multi-day note is in optimization_notes exactly when more than
\* one DayPlan is produced; a plan with a single DayPlan never carries it.
C22_MultiDayNoteIffSeveralDays ==
  pc = "done" => (hasMultiDayNote <=> Len(result.day_plans) > 1)

\* A DayPlan lists an issue of the given kind.
hasIssue(plan, kind) == \E q \in DOMAIN plan.issues : plan.issues[q].kind = kind

\* C23: a DayPlan is feasible exactly when its travel plus visit minutes are
\* at most the window end_time - start_time; exceeding max_total_distance_km
\* adds an issue and never changes feasible.
C23_FeasibleIffTimeFitsWindow ==
  \A d \in DOMAIN dayPlans :
    LET plan == dayPlans[d]
    IN /\ plan.feasible <=>
            plan.total_travel_time_minutes + plan.total_visit_time_minutes
              <= windowLength
       /\ hasIssue(plan, "exceedsTimeLimit") <=> ~plan.feasible
       /\ (constraints.max_total_distance_km # 0
           /\ plan.total_distance_km > 10 * constraints.max_total_distance_km)
            => hasIssue(plan, "exceedsDistanceLimit")

\* A returned plan with a day that is feasible and still lists a distance
\* issue.
C23_Witness ==
  /\ pc = "done"
  /\ \E d \in DOMAIN dayPlans :
       /\ dayPlans[d].feasible
       /\ hasIssue(dayPlans[d], "exceedsDistanceLimit")

\* The constraints of the call with the two break fields set to b.
withBreaks(b) ==
  [constraints EXCEPT !.break_duration_minutes = b.break_duration_minutes,
                      !.break_after_hours = b.break_after_hours]

\* C24: the TripPlan does not depend on break_duration_minutes or
\* break_after_hours: calls that differ only in these two fields return the
\* same plan (same days, order, times and feasibility flags) or error.
C24_BreakFieldsDoNotChangeThePlan ==
  finished(running) =>
    \A b \in BreakSettings :
      planTrip(locations, vehicle, withBreaks(b), geocodeMode, placeMode, matrixMode)
        = outcome(running)

\* A plan of several days returned to a call that asked for a break, which a
\* call without a break is compared with.
C24_Witness ==
  /\ pc = "done"
  /\ constraints.break_duration_minutes > 0
  /\ Len(result.day_plans) >= 2
  /\ \E b \in BreakSettings : withBreaks(b) # constraints

\* C25: planTrip never modifies the caller's input: the input list keeps its
\* order and length and no field of an input location changes (resolved
\* coordinates are put on copies), and after resolution no later stage changes
\* a field of a location or the order of the resolved list.
C25_InputAndResolvedListUntouched ==
  [][ /\ locations' = locations
      /\ inResolution =>
           \/ resolved' = resolved
           \/ /\ Len(resolved') = Len(resolved) + 1
              /\ SubSeq(resolved', 1, Len(resolved)) = resolved
              /\ [resolved'[Len(resolved')] EXCEPT !.coordinates = None]
                   = [locations[Len(resolved')] EXCEPT !.coordinates = None]
      /\ ~inResolution => resolved' = resolved ]_vars

\* A returned plan for three locations, one resolved through a collaborator,
\* whose visit order is not the input order.
C25_Witness ==
  /\ pc = "done"
  /\ Len(locations) = 3
  /\ resolved # locations
  /\ optimized # << 1, 2, 3 >>

\* C26: no error caused by the distance provider's answer reaches the caller:
\* when the provider returns without raising but with no rows, or fewer rows
\* than there are locations, planTrip with two or more resolved locations
\* still returns a TripPlan, the matrix handed to the optimizer having one row
\* and one column per resolved location.
C26_ProviderAnswerNeverFailsPlanning ==
  (/\ matrixMode # "throws"
   /\ Len(locations) >= 2
   /\ Len(resolved) = Len(locations)) =>
     /\ pc # "failed"
     /\ ~beforeMatrix =>
          /\ Len(distanceMatrix) = Len(resolved)
          /\ \A a \in DOMAIN distanceMatrix :
               Len(distanceMatrix[a]) = Len(resolved)

\* C27: every DayPlan that contains two or more locations is feasible; a
\* DayPlan with feasible = false contains exactly one location.
C27_InfeasibleDayHasOneLocation ==
  \A d \in DOMAIN dayPlans :
    /\ Len(dayPlans[d].locations) >= 2 => dayPlans[d].feasible
    /\ ~dayPlans[d].feasible => Len(dayPlans[d].locations) = 1

\* A returned plan with an infeasible day of one location and a feasible day
\* of two.
C27_Witness ==
  /\ pc = "done"
  /\ \E d \in DOMAIN dayPlans :
       ~dayPlans[d].feasible /\ Len(dayPlans[d].locations) = 1
  /\ \E d \in DOMAIN dayPlans :
       dayPlans[d].feasible /\ Len(dayPlans[d].locations) = 2

\* C28: for every DayPlan, on day 1 and on every later day,
\* total_travel_time_minutes is the sum of travel_time_minutes over that
\* DayPlan's route segments.
C28_TravelTimeIsSumOfSegments ==
  \A d \in DOMAIN dayPlans :
    dayPlans[d].total_travel_time_minutes
      = SumSeq([j \in DOMAIN dayPlans[d].route_segments |->
                 dayPlans[d].route_segments[j].travel_time_minutes])

\* C29: in every DayPlan, on day 1 and on every later day, each route
\* segment's departure_time and arrival_time lie between the DayPlan's
\* start_time and end_time, and the DayPlan's end_time is start_time plus the
\* day's accumulated travel and visit minutes.
C29_SegmentsWithinTheDay ==
  \A d \in DOMAIN dayPlans :
    LET plan == dayPlans[d]
    IN /\ parseTime(plan.end_time)
            = parseTime(plan.start_time) + plan.total_travel_time_minutes
                + plan.total_visit_time_minutes
       /\ \A j \in DOMAIN plan.route_segments :
            /\ parseTime(plan.start_time) <= parseTime(plan.route_segments[j].departure_time)
            /\ parseTime(plan.route_segments[j].departure_time)
                 <= parseTime(plan.route_segments[j].arrival_time)
            /\ parseTime(plan.route_segments[j].arrival_time) <= parseTime(plan.end_time)

\* C30: planTrip called with an empty location list does not return a TripPlan
\* with zero DayPlans: it fails with an error whose message starts with
\* 'Route planning failed:'.
C30_EmptyListFails ==
  Len(locations) = 0 =>
    /\ pc \in {"resolve", "awaitMatrix", "optimize", "select", "failed"}
    /\ result = NoPlan
    /\ pc = "failed" =>
         /\ Len(error) >= 2
         /\ error[1] = "Route planning failed: "

\* The call with no location has failed, after the matrix was asked for and
\* the optimizer ran.
C30_Witness ==
  /\ Len(locations) = 0
  /\ pc = "failed"
  /\ Len(calls) = 1
  /\ optimized = << UndefinedLoc >>

====
